---- MODULE Spec2Model ----
(***************************************************************************)
(* Model of build.py (Easy3DS): the build orchestration pipeline that      *)
(* turns RPG Maker 2000/2003 game directories into CIA archives.           *)
(*                                                                         *)
(* The process is single-threaded; pc is its position.  The filesystem,    *)
(* the parsed config files and the exit status of the external tools are   *)
(* the environment: every read of them is an input chosen with \E at the   *)
(* place where the code reads it, and what the code reads twice is kept    *)
(* in the state (cur) so that both reads agree.                            *)
(***************************************************************************)
EXTENDS Integers, Sequences, FiniteSets, TLC

(***************************************************************************)
(* Bounds of the model.                                                    *)
(***************************************************************************)
\* Largest number of entries os.listdir returns for the batch directory.
MaxCands == 2

(***************************************************************************)
(* Text.  Strings whose characters the code inspects are given as          *)
(* sequences of one-character tokens; a non-ASCII character is written as  *)
(* its code point ("U+65E5").                                              *)
(***************************************************************************)
\* A missing key / Python's None, and the False get_rtp_fallback returns.
None == "<None>"
False == "<False>"

HexDigits == {"0","1","2","3","4","5","6","7","8","9",
              "a","b","c","d","e","f","A","B","C","D","E","F"}
AsciiWord == HexDigits \cup {"G","H","I","J","K","L","M","P","R","X","Y","Z",
                             "g","m","o","x","y","_"}
AsciiSpace == {" "}

\* Directory names os.listdir may return for the batch directory.
\* os.listdir gives no order; the model lists the names it picks in this one,
\* which has a name with an empty slug before and after names with a slug.
GameNames == <<"<U+65E5><U+672C>", "Demo", "<U+00E9> - b!", "!!">>

\* Characters of a directory name (or of the tail os.path.split returns).
NameText(n) ==
  CASE n = "Demo"             -> <<"D","e","m","o">>
    [] n = "<U+00E9> - b!"    -> <<"U+00E9"," ","-"," ","b","!">>
    [] n = "<U+65E5><U+672C>" -> <<"U+65E5","U+672C">>
    [] n = "!!"               -> <<"!","!">>
    [] n = "."                -> <<".">>
    [] n = ""                 -> <<>>

RECURSIVE Concat(_)
Concat(ss) == IF ss = <<>> THEN <<>> ELSE Head(ss) \o Concat(Tail(ss))

RECURSIVE Filter(_, _)
Filter(s, keep) ==
  IF s = <<>> THEN <<>>
  ELSE (IF Head(s) \in keep THEN <<Head(s)>> ELSE <<>>) \o Filter(Tail(s), keep)

\* unicodedata.normalize('NFKD', c) of one character: e-acute decomposes into
\* "e" and the combining acute accent; the other characters are unchanged.
NFKD(c) == IF c = "U+00E9" THEN <<"e", "U+0301">> ELSE <<c>>

\* The ASCII characters of the model; encode('ascii', 'ignore') drops the others.
AsciiChars == AsciiWord \cup AsciiSpace \cup {"-", ".", "!", "+"}

RECURSIVE Strip(_)
Strip(s) ==
  IF s = <<>> THEN s
  ELSE IF Head(s) \in AsciiSpace THEN Strip(Tail(s))
  ELSE IF s[Len(s)] \in AsciiSpace THEN Strip(SubSeq(s, 1, Len(s) - 1))
  ELSE s

\* re.sub(r'[-\s]+', '-', s): every maximal run of hyphens/whitespace becomes "-".
RECURSIVE CollapseRuns(_)
CollapseRuns(s) ==
  IF s = <<>> THEN <<>>
  ELSE IF Head(s) \in AsciiSpace \cup {"-"}
       THEN IF Len(s) > 1 /\ s[2] \in AsciiSpace \cup {"-"}
            THEN CollapseRuns(Tail(s))
            ELSE <<"-">> \o CollapseRuns(Tail(s))
       ELSE <<Head(s)>> \o CollapseRuns(Tail(s))

\* slugify: NFKD, drop non-ASCII, drop what is not \w, \s or "-", strip,
\* collapse runs of "-" and whitespace.
slugify(value) ==
  LET nfkd  == Concat([i \in 1..Len(value) |-> NFKD(value[i])])
      ascii == Filter(nfkd, AsciiChars)
      word  == Filter(ascii, AsciiWord \cup AsciiSpace \cup {"-"})
  IN  CollapseRuns(Strip(word))

(***************************************************************************)
(* Paths.  A path is the sequence of its "/"-separated components as       *)
(* written (a trailing slash gives a last component "").                   *)
(***************************************************************************)
\* os.path.split(p)[1]: what follows the last slash.
SplitTail(p) == p[Len(p)]

\* '{}/{}'.format(game_dir, item)
JoinPath(game_dir, item) == game_dir \o <<item>>

\* The directory a path names: "" and "." components name nothing new.
Normalize(p) == Filter(p, {"games"} \cup {GameNames[i] : i \in 1..Len(GameNames)})

(***************************************************************************)
(* Runtime packages (RTP).                                                 *)
(***************************************************************************)
\* The keys of RTP_VERSIONS, lines 17-28.
RTP_VERSIONS ==
  {"2000-jp", "2000-en-don-miguel", "2000-en-official", "2003-jp",
   "2003-en-rpg-advocate", "2003-ru-kovnerov", "2003-en-official",
   "2003-en-maker-universe", "2003-ko-nioting", "easyrpg"}

\* What the RTP catalog root holds in the model: any packages of one of the
\* two English families get_rtp_fallback knows, packages of both, or a
\* directory whose name is no known identifier beside a plain file.
PlainFiles == {"readme.md"}
English2000 == {"2000-en-don-miguel", "2000-en-official"}
English2003 == {"2003-en-rpg-advocate", "2003-en-maker-universe", "2003-en-official"}
RtpListings == (SUBSET English2000) \cup (SUBSET English2003)
                 \cup {{"2000-en-official", "2003-en-official"},
                       {"2000-en-don-miguel", "2003-en-maker-universe"},
                       {"custom-rtp", "readme.md"},
                       {"custom-rtp", "readme.md", "2003-en-official"}}

\* Values of the "rtp" key of gameinfo.cfg in the model ("" when the key is absent).
RequestedIds == {"", "2003-en-rpg-advocate", "2000-en-official", "2003-english", "custom-rtp"}

IdText(id) ==
  CASE id = ""                     -> <<>>
    [] id = "2003-en-rpg-advocate" -> <<"2","0","0","3","-","e","n","-","r","p","g","-","a","d","v","o","c","a","t","e">>
    [] id = "2000-en-official"     -> <<"2","0","0","0","-","e","n","-","o","f","f","i","c","i","a","l">>
    [] id = "2003-english"         -> <<"2","0","0","3","-","e","n","g","l","i","s","h">>
    [] id = "custom-rtp"           -> <<"c","u","s","t","o","m","-","r","t","p">>

Prefix2000en == <<"2","0","0","0","-","e","n">>
Prefix2003en == <<"2","0","0","3","-","e","n">>

\* str.startswith
StartsWith(text, prefix) ==
  Len(text) >= Len(prefix) /\ SubSeq(text, 1, Len(prefix)) = prefix

\* The threshold of get_rm_version and the sizes of RPG_RT.exe in the model.
ExeSizeLimit == 800000
ExeSizes == {ExeSizeLimit, ExeSizeLimit + 1}

\* check_rtp: None when the root is no directory, else every subdirectory of it.
check_rtp(rootIsDir, listing) ==
  IF ~rootIsDir THEN [none |-> TRUE, keys |-> {}]
  ELSE [none |-> FALSE, keys |-> {item \in listing : item \notin PlainFiles}]

\* rtps.get(id) is truthy: the value is the non-empty path rtp + '/' + id.
HasRtp(rtps, id) == id \in rtps.keys

\* Mutant of get_rm_version: a file of exactly the threshold counts as 2003.
get_rm_version_Inclusive(exeIsFile, size) ==
  IF ~exeIsFile THEN 2003
  ELSE IF size >= ExeSizeLimit THEN 2003 ELSE 2000

\* get_rm_version: 2003 without an executable or above the threshold, else 2000.
get_rm_version(exeIsFile, size) ==
  IF ~exeIsFile THEN 2003
  ELSE IF size > ExeSizeLimit THEN 2003 ELSE 2000

\* The family get_rtp_fallback looks in.
FallbackFamily(wanted_rtp, exeIsFile, size) ==
  LET byPrefix == IF StartsWith(IdText(wanted_rtp), Prefix2003en) THEN "2003-en"
                  ELSE IF StartsWith(IdText(wanted_rtp), Prefix2000en) THEN "2000-en"
                  ELSE ""
  IN  IF byPrefix # "" THEN byPrefix
      ELSE IF get_rm_version(exeIsFile, size) = 2000 THEN "2000-en" ELSE "2003-en"

\* Mutant of get_rtp_fallback: the official 2003 package is tried first.
get_rtp_fallback_OfficialFirst(rtps, wanted_rtp, exeIsFile, size) ==
  LET wanted == FallbackFamily(wanted_rtp, exeIsFile, size)
  IN  IF wanted = "2000-en" /\ HasRtp(rtps, "2000-en-don-miguel") THEN "2000-en-don-miguel"
      ELSE IF wanted = "2000-en" /\ HasRtp(rtps, "2000-en-official") THEN "2000-en-official"
      ELSE IF wanted = "2003-en" /\ HasRtp(rtps, "2003-en-official") THEN "2003-en-official"
      ELSE IF wanted = "2003-en" /\ HasRtp(rtps, "2003-en-rpg-advocate") THEN "2003-en-rpg-advocate"
      ELSE IF wanted = "2003-en" /\ HasRtp(rtps, "2003-en-maker-universe") THEN "2003-en-maker-universe"
      ELSE False

\* get_rtp_fallback: the first available package of the family, else False.
get_rtp_fallback(rtps, wanted_rtp, exeIsFile, size) ==
  LET wanted == FallbackFamily(wanted_rtp, exeIsFile, size)
  IN  IF wanted = "2000-en" /\ HasRtp(rtps, "2000-en-don-miguel") THEN "2000-en-don-miguel"
      ELSE IF wanted = "2000-en" /\ HasRtp(rtps, "2000-en-official") THEN "2000-en-official"
      ELSE IF wanted = "2003-en" /\ HasRtp(rtps, "2003-en-rpg-advocate") THEN "2003-en-rpg-advocate"
      ELSE IF wanted = "2003-en" /\ HasRtp(rtps, "2003-en-maker-universe") THEN "2003-en-maker-universe"
      ELSE IF wanted = "2003-en" /\ HasRtp(rtps, "2003-en-official") THEN "2003-en-official"
      ELSE False

\* build_cia line 94: the opt-out warning.
WarnRtpNeeded(full_package_flag, nortp) == ~full_package_flag /\ nortp

\* Mutant of NeedsFallback: the self-contained flag is not looked at.
NeedsFallback_NoFlag(rtps, wanted_rtp, nortp, full_package_flag) ==
  ~HasRtp(rtps, wanted_rtp) /\ ~nortp

\* build_cia line 98: the exact package is missing and a package is needed.
NeedsFallback(rtps, wanted_rtp, nortp, full_package_flag) ==
  ~HasRtp(rtps, wanted_rtp) /\ ~nortp /\ ~full_package_flag

(***************************************************************************)
(* gameinfo.cfg.                                                           *)
(***************************************************************************)
\* Values of the cia_id key in the model (None: the key is absent).
CiaIds == {"A1B2C3", "A1B2C", "GHIJKL", "XYZ", "0x1A2B", "+A1B2C", "A1_B2C", "", None}
Titles == {"Demo", "", None}
Authors == {"Bob", "", None}

CiaIdText(id) ==
  CASE id = "A1B2C3" -> <<"A","1","B","2","C","3">>
    [] id = "A1B2C"  -> <<"A","1","B","2","C">>
    [] id = "GHIJKL" -> <<"G","H","I","J","K","L">>
    [] id = "XYZ"    -> <<"X","Y","Z">>
    [] id = "0x1A2B" -> <<"0","x","1","A","2","B">>
    [] id = "+A1B2C" -> <<"+","A","1","B","2","C">>
    [] id = "A1_B2C" -> <<"A","1","_","B","2","C">>
    [] id = ""       -> <<>>

\* int(s, 16) does not raise ValueError: an optional sign, an optional 0x
\* prefix, then hex digits that single underscores may separate.
ParsesAsHex(s) ==
  LET unsigned == IF s # <<>> /\ Head(s) \in {"+", "-"} THEN Tail(s) ELSE s
      prefixed == Len(unsigned) >= 2 /\ unsigned[1] = "0" /\ unsigned[2] \in {"x", "X"}
      afterPre == IF prefixed THEN SubSeq(unsigned, 3, Len(unsigned)) ELSE unsigned
      digits   == IF prefixed /\ afterPre # <<>> /\ Head(afterPre) = "_"
                  THEN Tail(afterPre) ELSE afterPre
  IN  /\ digits # <<>>
      /\ \A i \in 1..Len(digits) : digits[i] \in HexDigits \cup {"_"}
      /\ digits[1] # "_"
      /\ digits[Len(digits)] # "_"
      /\ \A i \in 1..(Len(digits) - 1) : ~(digits[i] = "_" /\ digits[i + 1] = "_")

\* check_3ds_info, lines 320-322: the section or a required key is missing.
InfoRaises(hasSection, id, title) == ~hasSection \/ id = None \/ title = None

\* check_3ds_info, lines 323-337: what report_no_info lists.
InfoProblems(id, title, author) ==
  LET author2         == IF author = None \/ author = "" THEN "Unknown author" ELSE author
      valid_id        == ParsesAsHex(CiaIdText(id))
      valid_id_length == Len(CiaIdText(id)) = 6
      valid_title     == title # ""
      valid_author    == author2 # ""
  IN  (IF valid_id THEN {} ELSE {"invalid ID (must be hexadecimal)"})
      \cup (IF valid_id_length THEN {} ELSE {"invalid ID length (must be 6 characters)"})
      \cup (IF valid_title THEN {} ELSE {"invalid title"})
      \cup (IF valid_author THEN {} ELSE {"invalid author"})

(***************************************************************************)
(* Assets and their fingerprints.                                          *)
(***************************************************************************)
AssetKinds == {"audio", "banner", "icon", "info"}

\* build, lines 211-216: the fingerprints of the tool's own default assets.
default_crcs == [k \in AssetKinds |-> "default"]

\* build_cia, line 124.
DefaultItems(crcs) == {item \in AssetKinds : crcs[item] = default_crcs[item]}

\* Mutant of ProceedsToBuild: any default asset fails the build.
ProceedsToBuild_NoDefaults(default_items) == default_items = {}

\* build_cia, lines 127-130: staging and building go ahead.
ProceedsToBuild(default_items) == "info" \notin default_items

\* build_cia, line 125.
WarnsDefaultAssets(default_items) == Cardinality(default_items) > 1

(***************************************************************************)
(* The scratch directory.  An entry is a file, in the staging directory    *)
(* dir (<<>> is the scratch root itself), written during attempt owner.    *)
(***************************************************************************)
ToolFiles == {"banner.bin", "icon.bin", "romfs.bin", "spec.rsf"}
Entry(dir, file, owner) == [dir |-> dir, file |-> file, owner |-> owner]

\* The name glob sees directly under the scratch directory.
IsHiddenTop(e) == IF e.dir = <<>> THEN e.file = ".dotfile" ELSE Head(e.dir) = "."

\* clean_up_tmp_files: glob('<tmp>/*') skips names that start with a dot;
\* a matched directory is removed with all it holds.
clean_up_tmp_files(files) == {e \in files : IsHiddenTop(e)}

\* make_game_tmp: '<tmp>/<name>', the scratch root itself when name is empty.
make_game_tmp(name) == name

\* What the tree rooted at the staging directory holds.
TreeUnder(files, dir) ==
  IF dir = <<>> THEN {[file |-> e.file, owner |-> e.owner] : e \in files}
  ELSE {[file |-> e.file, owner |-> e.owner] : e \in {x \in files : x.dir = dir}}

(***************************************************************************)
(* State.  cur holds the locals of the running build / build_cia call; a   *)
(* local no later line reads is put back to its initial value.  obs and    *)
(* read are observations: what the running call has done so far, and what  *)
(* the last step read from the environment.                                *)
(***************************************************************************)
VARIABLES
  pc,           \* position of the process
  game_dir,     \* args.dir, as written
  root_is_game, \* is_game(args.dir)
  no_rtp,       \* args.no_rtp
  rtp_root,     \* the RTP catalog root: [isdir, listing]
  rtp_dirs,     \* what check_rtp returned: [none, keys]
  scratch,      \* the files under the scratch directory
  idx,          \* number of entries build was called for
  listpos,      \* position in GameNames of the entry build was last called for
  count,        \* build_dir's count
  summary,      \* <<n>> once report_builds_done(n) ran, else <<>>
  finished,     \* number of calls of build that have returned
  built,        \* number of them that returned a successful result
  cur,          \* locals of the running build / build_cia call
  obs,          \* what the running call did: diagnostics, tools invoked, files
  read          \* what the last step read from the environment and went by

vars == <<pc, game_dir, root_is_game, no_rtp, rtp_root, rtp_dirs, scratch,
          idx, listpos, count, summary, finished, built, cur, obs, read>>

\* Unchanged by every step after check_rtp.
args == <<game_dir, root_is_game, no_rtp, rtp_root, rtp_dirs>>
\* Unchanged by every step of build.
loop == <<idx, listpos, count, summary, finished, built>>

BatchDir == <<"games">>
GameDirs == {BatchDir, <<"games", "Demo">>, <<"games", "Demo", "">>, <<".">>}

InitCur ==
  [item |-> "", report_dir |-> FALSE, ini |-> "none", author |-> None,
   full_package_flag |-> FALSE, wanted_rtp |-> "",
   success |-> FALSE, skip |-> FALSE, ret |-> "running"]

InitObs ==
  [log |-> {}, crcDone |-> FALSE, anyDefault |-> FALSE, staged |-> FALSE,
   invoked |-> <<>>, reportedStep |-> 0, reportedType |-> None,
   smdhAuthor |-> None, archived |-> FALSE, romfsTree |-> {},
   envFault |-> FALSE, reportedAuthor |-> None]

NoRead == [what |-> "nothing"]

Init ==
  /\ pc = "check_rtp"
  /\ game_dir \in GameDirs
  /\ root_is_game = (game_dir # BatchDir)
  /\ no_rtp \in BOOLEAN
  /\ rtp_root \in {[isdir |-> FALSE, listing |-> {}]}
                    \cup {[isdir |-> TRUE, listing |-> l] : l \in RtpListings}
  /\ rtp_dirs = [none |-> FALSE, keys |-> {}]
  /\ scratch \in {{}, {Entry(<<>>, "romfs.bin", 0)}, {Entry(<<"D","e","m","o">>, "game", 0)}}
  /\ idx = 0
  /\ listpos = 0
  /\ count = 0
  /\ summary = <<>>
  /\ finished = 0
  /\ built = 0
  /\ cur = InitCur
  /\ obs = InitObs
  /\ read = NoRead

(***************************************************************************)
(* main, lines 191-195: the startup checks.                                *)
(***************************************************************************)
CheckRtp ==
  /\ pc = "check_rtp"
  /\ rtp_dirs' = check_rtp(rtp_root.isdir, rtp_root.listing)
  /\ pc' = "check_rsf_template"
  /\ UNCHANGED <<game_dir, root_is_game, no_rtp, rtp_root, scratch, loop, cur, obs, read>>

\* check_rsf_template, line 365: the template is there (else _report_error).
HasRsfTemplate(isfile) == isfile

\* Mutant of HasPrerequisites: makerom is not looked for.
HasPrerequisites_NoMakerom(has_bannertool, has_3dstool, has_makerom) ==
  has_bannertool /\ has_3dstool

\* check_prerequisites, line 381.
HasPrerequisites(has_bannertool, has_3dstool, has_makerom) ==
  has_bannertool /\ has_3dstool /\ has_makerom

\* check_easyrpg_elf, line 371.
HasEasyrpgElf(isfile) == isfile

\* _report_error prints and calls sys.exit(1).
CheckRsfTemplate ==
  /\ pc = "check_rsf_template"
  /\ \E isfile \in BOOLEAN :
       /\ read' = [what |-> "spec", isfile |-> isfile]
       /\ pc' = IF HasRsfTemplate(isfile) THEN "check_prerequisites" ELSE "exit1"
  /\ UNCHANGED <<args, scratch, loop, cur, obs>>

CheckPrerequisites ==
  /\ pc = "check_prerequisites"
  /\ \E has_bannertool \in BOOLEAN, has_3dstool \in BOOLEAN, has_makerom \in BOOLEAN :
       /\ read' = [what |-> "tools", has_bannertool |-> has_bannertool,
                   has_3dstool |-> has_3dstool, has_makerom |-> has_makerom]
       /\ pc' = IF HasPrerequisites(has_bannertool, has_3dstool, has_makerom)
                THEN "check_easyrpg_elf" ELSE "exit1"
  /\ UNCHANGED <<args, scratch, loop, cur, obs>>

CheckEasyrpgElf ==
  /\ pc = "check_easyrpg_elf"
  /\ \E isfile \in BOOLEAN :
       /\ read' = [what |-> "elf", isfile |-> isfile]
       /\ pc' = IF HasEasyrpgElf(isfile) THEN "clean_start" ELSE "exit1"
  /\ UNCHANGED <<args, scratch, loop, cur, obs>>

\* main, line 195.  os.remove / shutil.rmtree may raise; nothing catches it.
CleanStart ==
  /\ pc = "clean_start"
  /\ \E raises \in BOOLEAN :
       /\ read' = [what |-> "clean_start", raises |-> raises]
       /\ IF raises
          THEN pc' = "crashed" /\ UNCHANGED scratch
          ELSE pc' = "build_dir" /\ scratch' = clean_up_tmp_files(scratch)
  /\ UNCHANGED <<args, loop, cur, obs>>

(***************************************************************************)
(* build_dir.                                                              *)
(***************************************************************************)
\* Mutants of CountsAsBuilt: every result counts; a skipped game counts.
CountsAsBuilt_AnyResult(ret) == ret # "None"
CountsAsBuilt_SkipCounts(ret) == ret \in {"success", "skip"}

\* Line 255 (and 247): the result counts as a build.
CountsAsBuilt(ret) == ret = "success"

\* Lines 243-246 (a single game) and 252-253 (the directory is listed).
BuildDir ==
  /\ pc = "build_dir"
  /\ IF root_is_game
     THEN /\ cur' = [InitCur EXCEPT !.item = SplitTail(game_dir), !.report_dir = TRUE]
          /\ idx' = 1
          /\ pc' = "build"
     ELSE /\ pc' = "loop"
          /\ UNCHANGED <<idx, cur>>
  /\ read' = NoRead
  /\ UNCHANGED <<args, scratch, listpos, count, summary, finished, built, obs>>

\* Lines 253-254: the listing has a next entry (the model lists at most
\* MaxCands), and build is called for it.
LoopNext ==
  /\ pc = "loop"
  /\ idx < MaxCands
  /\ \E j \in (listpos + 1)..Len(GameNames) :
       /\ listpos' = j
       /\ cur' = [InitCur EXCEPT !.item = GameNames[j]]
  /\ idx' = idx + 1
  /\ pc' = "build"
  /\ UNCHANGED <<args, scratch, count, summary, finished, built, obs, read>>

\* Line 258 after the last entry, and main's sys.exit(0).
LoopDone ==
  /\ pc = "loop"
  /\ summary' = <<count>>
  /\ pc' = "exit0"
  /\ UNCHANGED <<args, scratch, idx, listpos, count, finished, built, cur, obs, read>>

\* Lines 247-250: a single game's result is the exit status.
SingleResult ==
  /\ pc = "returned"
  /\ root_is_game
  /\ finished' = finished + 1
  /\ built' = IF cur.ret = "success" THEN built + 1 ELSE built
  /\ pc' = IF CountsAsBuilt(cur.ret) THEN "exit0" ELSE "exit1"
  /\ cur' = InitCur
  /\ obs' = InitObs
  /\ read' = NoRead
  /\ UNCHANGED <<args, scratch, idx, listpos, count, summary>>

\* Lines 255-256.
LoopResult ==
  /\ pc = "returned"
  /\ ~root_is_game
  /\ finished' = finished + 1
  /\ built' = IF cur.ret = "success" THEN built + 1 ELSE built
  /\ count' = IF CountsAsBuilt(cur.ret) THEN count + 1 ELSE count
  /\ pc' = "loop"
  /\ cur' = InitCur
  /\ obs' = InitObs
  /\ read' = NoRead
  /\ UNCHANGED <<args, scratch, idx, listpos, summary>>

(***************************************************************************)
(* build: the checks before build_cia.                                     *)
(***************************************************************************)
\* is_game: RPG_RT.ini or rpg_rt.ini is a file.  ini is "upper" when a file
\* opens under the name RPG_RT.ini, "lower_only" when only rpg_rt.ini does.
is_game(ini) == ini \in {"upper", "lower_only"}

\* check_3ds_assets, line 312.
check_3ds_assets(missing) == missing = {}

\* Line 205: the directory build looks at, '<game_dir>/<item>'.
game_path(dir, item) == Normalize(JoinPath(dir, item))

\* Whether that is game_dir itself.
NamesItself(dir, item) == game_path(dir, item) = Normalize(dir)

\* Lines 205-224.  When the path names game_dir itself, it is a directory
\* with a project file: build_dir has just seen is_game(game_dir).
Build ==
  /\ pc = "build"
  /\ \E isdir \in BOOLEAN, ini \in {"none", "upper", "lower_only"} :
       /\ NamesItself(game_dir, cur.item) => (isdir /\ is_game(ini))
       /\ ~isdir => ini = "none"
       /\ read' = [what |-> "dir", isdir |-> isdir, ini |-> ini]
       /\ IF ~isdir
          THEN /\ obs' = [obs EXCEPT !.log = IF cur.report_dir THEN {"not_a_dir"} ELSE {}]
               /\ cur' = [cur EXCEPT !.ret = "None"]
               /\ pc' = "returned"
          ELSE IF ~is_game(ini)
          THEN /\ obs' = [obs EXCEPT !.log = {"not_a_game"}]
               /\ cur' = [cur EXCEPT !.ret = "None"]
               /\ pc' = "returned"
          ELSE /\ cur' = [cur EXCEPT !.ini = ini]
               /\ pc' = "check_3ds_assets"
               /\ UNCHANGED obs
  /\ UNCHANGED <<args, scratch, loop>>

\* Lines 225-226 and check_3ds_assets.
CheckAssets ==
  /\ pc = "check_3ds_assets"
  /\ \E missing \in SUBSET AssetKinds :
       /\ read' = [what |-> "assets", missing |-> missing]
       /\ IF check_3ds_assets(missing)
          THEN pc' = "check_3ds_info" /\ UNCHANGED <<cur, obs>>
          ELSE /\ obs' = [obs EXCEPT !.log = {"no_assets"}]
               /\ cur' = [cur EXCEPT !.ret = "None"]
               /\ pc' = "returned"
  /\ UNCHANGED <<args, scratch, loop>>

\* Lines 227-228 and check_3ds_info.  A missing section or key raises
\* KeyError, which nothing up to main catches.
CheckInfo ==
  /\ pc = "check_3ds_info"
  /\ \E hasSection \in BOOLEAN, id \in CiaIds, title \in Titles, author \in Authors :
       /\ ~hasSection => (id = None /\ title = None /\ author = None)
       /\ read' = [what |-> "gameinfo", hasSection |-> hasSection, id |-> id,
                   title |-> title, author |-> author,
                   diag |-> IF InfoRaises(hasSection, id, title) THEN {}
                            ELSE InfoProblems(id, title, author)]
       /\ IF InfoRaises(hasSection, id, title)
          THEN pc' = "crashed" /\ UNCHANGED <<cur, obs>>
          ELSE IF InfoProblems(id, title, author) # {}
          THEN /\ obs' = [obs EXCEPT !.log = {"no_info"}]
               /\ cur' = [cur EXCEPT !.ret = "None"]
               /\ pc' = "returned"
          ELSE /\ cur' = [cur EXCEPT !.author = author]
               /\ pc' = "build_cia"
               /\ UNCHANGED obs
  /\ UNCHANGED <<args, scratch, loop>>

(***************************************************************************)
(* build_cia.                                                              *)
(***************************************************************************)
\* rpg_rt.get('FullPackageFlag', '').strip() == '1'
FullPackageFlag(value) == value = "1"

\* get_rtp_fallback, line 429: no family prefix, so get_rm_version is asked.
ConsultsExe(wanted_rtp) ==
  /\ ~StartsWith(IdText(wanted_rtp), Prefix2000en)
  /\ ~StartsWith(IdText(wanted_rtp), Prefix2003en)

\* Lines 88-110.  Reading the section of a project file that did not open
\* under the name RPG_RT.ini, or that has no RPG_RT section, raises KeyError;
\* rtp_dirs.get raises AttributeError when check_rtp returned None.
BuildCia ==
  /\ pc = "build_cia"
  /\ \E hasSection \in BOOLEAN, flag \in {"1", "0", None}, rtp \in RequestedIds,
        exeIsFile \in BOOLEAN, size \in ExeSizes :
       LET fpf  == FullPackageFlag(flag)
           warn == IF WarnRtpNeeded(fpf, no_rtp) THEN {"rtp_needed"} ELSE {}
           ran  == ~rtp_dirs.none /\ NeedsFallback(rtp_dirs, rtp, no_rtp, fpf)
           asks == ran /\ ConsultsExe(rtp)
           fb   == get_rtp_fallback(rtp_dirs, rtp, exeIsFile, size)
           seen == [what |-> "rtp", flag |-> flag, requested |-> rtp, fallbackRan |-> ran,
                    exeAsked |-> asks, exeIsFile |-> exeIsFile, exeSize |-> size]
       IN  /\ (cur.ini = "lower_only" \/ ~hasSection) => (flag = None /\ rtp = "")
           /\ ~asks => (exeIsFile /\ size = ExeSizeLimit)
           /\ ~exeIsFile => size = ExeSizeLimit
           /\ IF cur.ini = "lower_only" \/ ~hasSection
              THEN /\ pc' = "crashed"
                   /\ read' = [what |-> "RPG_RT.ini", hasSection |-> hasSection]
                   /\ UNCHANGED <<cur, obs>>
              ELSE /\ read' = seen
                   /\ IF rtp_dirs.none
                      THEN /\ pc' = "crashed"
                           /\ obs' = [obs EXCEPT !.log = warn]
                           /\ cur' = [cur EXCEPT !.full_package_flag = fpf, !.wanted_rtp = rtp]
                      ELSE IF ~ran
                      THEN /\ cur' = [cur EXCEPT !.full_package_flag = fpf, !.wanted_rtp = rtp,
                                                 !.ini = "none"]
                           /\ obs' = [obs EXCEPT !.log = warn]
                           /\ pc' = "crc"
                      ELSE IF fb # False
                      THEN /\ cur' = [cur EXCEPT !.full_package_flag = fpf, !.wanted_rtp = fb,
                                                 !.ini = "none"]
                           /\ obs' = [obs EXCEPT !.log = warn \cup {"rtp_fallback"}]
                           /\ pc' = "crc"
                      ELSE /\ cur' = [cur EXCEPT !.full_package_flag = fpf, !.wanted_rtp = rtp,
                                                 !.ini = "none", !.skip = TRUE]
                           /\ obs' = [obs EXCEPT !.log = warn \cup {"no_rtp_for_game"}]
                           /\ pc' = "build_result"
  /\ UNCHANGED <<args, scratch, loop>>

\* Lines 114-130.  crc opens the asset; an IOError is not caught.
Crc ==
  /\ pc = "crc"
  /\ \/ /\ pc' = "crashed"
        /\ read' = [what |-> "crc", raised |-> TRUE]
        /\ UNCHANGED <<cur, obs>>
     \/ \E crcs \in [AssetKinds -> {"default", "own"}] :
          LET default_items == DefaultItems(crcs)
              warn == IF WarnsDefaultAssets(default_items) THEN {"default_assets"} ELSE {}
          IN  /\ read' = [what |-> "crc", raised |-> FALSE, default_items |-> default_items]
              /\ obs' = [obs EXCEPT !.log = @ \cup warn, !.crcDone = TRUE,
                                    !.anyDefault = default_items # {}]
              /\ cur' = [cur EXCEPT !.success = ProceedsToBuild(default_items)]
              /\ pc' = IF ProceedsToBuild(default_items) THEN "stage" ELSE "build_result"
  /\ UNCHANGED <<args, scratch, loop>>

\* copy_rtp_to_tmp: the package is copied when rtp_dirs has the id.
copy_rtp_to_tmp(tmp_path, wanted_rtp, rtps, owner) ==
  IF HasRtp(rtps, wanted_rtp) THEN {Entry(tmp_path, "rtp", owner)} ELSE {}

\* copy_game_to_tmp: everything in the game directory, hidden files too.
copy_game_to_tmp(tmp_path, hasDotfile, owner) ==
  {Entry(tmp_path, "game", owner)}
    \cup (IF hasDotfile THEN {Entry(tmp_path, ".dotfile", owner)} ELSE {})

\* Line 138 raises AttributeError when the author key is absent.
AuthorRaises(author) == author = None

\* Line 144.
SmdhAuthor(author) == IF author = "" THEN "Unknown author" ELSE author

\* Lines 131-138.  copy_tree may raise; the except of line 159 catches it, as
\* it catches the AttributeError of line 138.
Stage ==
  /\ pc = "stage"
  /\ \E copy \in {"ok", "rtp_raises", "game_raises"}, hasDotfile \in BOOLEAN :
       LET game_tmp_dir == make_game_tmp(slugify(NameText(cur.item)))
           rtp  == copy_rtp_to_tmp(game_tmp_dir, cur.wanted_rtp, rtp_dirs, idx)
           game == copy_game_to_tmp(game_tmp_dir, hasDotfile, idx)
       IN  /\ copy = "rtp_raises" => (rtp # {} /\ ~hasDotfile)
           \* A hidden file is told apart from the game's other files only where
           \* it comes to lie directly under the scratch directory.
           /\ hasDotfile => game_tmp_dir = <<>>
           /\ read' = [what |-> "copy", copy |-> copy, hasDotfile |-> hasDotfile,
                       full_package_flag |-> cur.full_package_flag]
           /\ scratch' = IF copy = "rtp_raises" THEN scratch \cup rtp
                         ELSE scratch \cup rtp \cup game
           /\ obs' = [obs EXCEPT !.staged = TRUE, !.envFault = copy # "ok"]
           /\ cur' = [cur EXCEPT !.success = copy = "ok" /\ ~AuthorRaises(cur.author),
                                 !.full_package_flag = FALSE, !.wanted_rtp = ""]
           /\ pc' = IF copy = "ok" /\ ~AuthorRaises(cur.author) THEN "makebanner" ELSE "cleanup"
  /\ UNCHANGED <<args, loop>>

(***************************************************************************)
(* make_cia_file.                                                          *)
(***************************************************************************)
\* Mutant of ToolFailed: the exit status is not looked at.
ToolFailed_Ignored(returncode) == FALSE

\* Lines 38, 40, 42, 53: result.returncode != 0.
ToolFailed(returncode) == returncode # "0"

\* One step of make_cia_file run by subprocess.run; the position is named
\* after the type report_cia_error is given.  A failed step returns
\* report_cia_error's None, on which line 158 raises TypeError into the except
\* of line 159; subprocess.run raising ends there too.
ToolStep(step, here, next, outfile) ==
  /\ pc = here
  /\ \E returncode \in {"0", "1", "raise"} :
       /\ read' = [what |-> "tool", returncode |-> returncode]
       /\ IF returncode = "raise"
          THEN /\ obs' = [obs EXCEPT !.invoked = Append(@, step), !.envFault = TRUE]
               /\ cur' = [cur EXCEPT !.success = FALSE]
               /\ pc' = "cleanup"
               /\ UNCHANGED scratch
          ELSE IF ToolFailed(returncode)
          THEN /\ obs' = [obs EXCEPT !.invoked = Append(@, step), !.reportedStep = step,
                                     !.reportedType = here, !.log = @ \cup {"cia_error"}]
               /\ cur' = [cur EXCEPT !.success = FALSE]
               /\ pc' = "cleanup"
               /\ UNCHANGED scratch
          ELSE /\ obs' = [obs EXCEPT
                            !.invoked = Append(@, step),
                            !.smdhAuthor = IF step = 2 THEN SmdhAuthor(cur.author) ELSE @,
                            !.romfsTree = IF step = 3
                                          THEN TreeUnder(scratch, make_game_tmp(slugify(NameText(cur.item))))
                                          ELSE @,
                            !.archived = (step = 5)]
               /\ cur' = [cur EXCEPT !.success = (step = 5)]
               /\ scratch' = IF step = 5 THEN scratch
                             ELSE scratch \cup {Entry(<<>>, outfile, idx)}
               /\ pc' = next
  /\ UNCHANGED <<args, loop>>

\* Lines 37-38.
Makebanner == ToolStep(1, "makebanner", "makesmdh", "banner.bin")

\* Lines 39-40.
Makesmdh == ToolStep(2, "makesmdh", "3dstool", "icon.bin")

\* Lines 41-42.
Make3dstool == ToolStep(3, "3dstool", "rsf", "romfs.bin")

\* Lines 44-50: the spec template is read, the id put in, the result written.
Rsf ==
  /\ pc = "rsf"
  /\ \E ok \in BOOLEAN :
       /\ read' = [what |-> "rsf", ok |-> ok]
       /\ IF ok
          THEN /\ obs' = [obs EXCEPT !.invoked = Append(@, 4)]
               /\ scratch' = scratch \cup {Entry(<<>>, "spec.rsf", idx)}
               /\ pc' = "makerom"
               /\ UNCHANGED cur
          ELSE /\ obs' = [obs EXCEPT !.invoked = Append(@, 4), !.reportedStep = 4,
                                     !.reportedType = "rsf", !.log = @ \cup {"cia_error"}]
               /\ cur' = [cur EXCEPT !.success = FALSE]
               /\ pc' = "cleanup"
               /\ UNCHANGED scratch
  /\ UNCHANGED <<args, loop>>

\* Lines 52-63 and 158.
Makerom == ToolStep(5, "makerom", "cleanup", "")

\* Lines 161-162: the finally clause.  An exception raised by the removal
\* leaves build_cia, build and build_dir.
Cleanup ==
  /\ pc = "cleanup"
  /\ \E raises \in BOOLEAN :
       /\ read' = [what |-> "cleanup", raises |-> raises]
       /\ IF raises
          THEN pc' = "crashed" /\ UNCHANGED scratch
          ELSE pc' = "build_result" /\ scratch' = clean_up_tmp_files(scratch)
  /\ UNCHANGED <<args, loop, cur, obs>>

\* build_cia's return (lines 105-110, 164-172) and build, lines 230-236.
BuildResult ==
  /\ pc = "build_result"
  /\ IF ~cur.success
     THEN IF cur.skip
          THEN cur' = [cur EXCEPT !.ret = "skip"] /\ UNCHANGED obs
          ELSE /\ cur' = [cur EXCEPT !.ret = "failed"]
               /\ obs' = [obs EXCEPT !.log = @ \cup {"build_failed"}]
     ELSE /\ cur' = [cur EXCEPT !.ret = "success"]
          /\ obs' = [obs EXCEPT !.log = @ \cup {"build_succeeded"},
                                !.reportedAuthor = obs.smdhAuthor]
  /\ pc' = "returned"
  /\ read' = NoRead
  /\ UNCHANGED <<args, scratch, loop>>

Next ==
  \/ CheckRtp
  \/ CheckRsfTemplate
  \/ CheckPrerequisites
  \/ CheckEasyrpgElf
  \/ CleanStart
  \/ BuildDir
  \/ LoopNext
  \/ LoopDone
  \/ SingleResult
  \/ LoopResult
  \/ Build
  \/ CheckAssets
  \/ CheckInfo
  \/ BuildCia
  \/ Crc
  \/ Stage
  \/ Makebanner
  \/ Makesmdh
  \/ Make3dstool
  \/ Rsf
  \/ Makerom
  \/ Cleanup
  \/ BuildResult

Spec == Init /\ [][Next]_vars

(***************************************************************************)
(* Properties.                                                             *)
(***************************************************************************)
\* Files in the scratch directory written during the running call of build.
OwnFiles == {e \in scratch : e.owner = idx}

\* The call of build_cia got as far as the try block of line 131 and nothing
\* outside the program failed in it: no copy and no subprocess.run raised,
\* and no step of make_cia_file was reported as failed.
CleanRun == obs.staged /\ ~obs.envFault /\ obs.reportedStep = 0

\* C1: a valid game without an author (the key absent, or blank), none of
\* whose assets is a default, is built successfully when all five steps exit
\* with status 0, and "Unknown author" is passed to makesmdh and reported.
C1_NoAuthorBuilds ==
  (pc = "returned" /\ CleanRun /\ ~obs.anyDefault /\ cur.author \in {None, ""})
    => /\ cur.ret = "success"
       /\ obs.smdhAuthor = "Unknown author"
       /\ obs.reportedAuthor = "Unknown author"

\* C2: when the source directory is itself a game root, the one candidate
\* build looks at is that directory itself, and the process exits with
\* status 0 exactly when its build succeeded.
C2_SingleGameIsItself ==
  root_is_game =>
    /\ pc = "build" => game_path(game_dir, cur.item) = Normalize(game_dir)
    /\ (pc = "exit0" /\ finished = 1) => built = 1
    /\ (pc = "exit1" /\ finished = 1) => built = 0

\* C3: in batch mode no candidate stops the batch: no exception leaves
\* build_dir once a candidate is being processed (an exception that does
\* skips every later entry and the summary line).
C3_BatchNeverAborts ==
  (~root_is_game /\ idx >= 1) => pc # "crashed"

\* C4: the count reported at the end of a batch is the number of candidates
\* whose build succeeded; each result that counts is that candidate's own
\* complete build.
C4_CountIsBuilt ==
  /\ ~root_is_game => (count = built /\ built <= finished /\ finished <= idx)
  /\ summary # <<>> => (summary = <<built>> /\ finished = idx /\ pc = "exit0")
  /\ (pc = "returned" /\ cur.ret = "success")
       => (obs.invoked = <<1, 2, 3, 4, 5>> /\ obs.archived)
  /\ (pc = "returned" /\ cur.ret # "success") => ~obs.archived

C4_Witness ==
  ~root_is_game /\ summary = <<1>> /\ finished = 2

\* C5: after a call of build has returned, the scratch directory is empty.
C5_ScratchEmptyAfterAttempt ==
  pc = "returned" => scratch = {}

IsPrefixOf(s, t) == Len(s) <= Len(t) /\ SubSeq(t, 1, Len(s)) = s

StepType(step) ==
  CASE step = 1 -> "makebanner" [] step = 2 -> "makesmdh" [] step = 3 -> "3dstool"
    [] step = 4 -> "rsf" [] step = 5 -> "makerom"

\* C6: the steps of make_cia_file run in the order 1..5; the first that
\* fails is the last one invoked, its index and name are reported, and the
\* result is a failed build, neither successful nor skipped; a successful
\* build ran all five steps.
C6_StepsInOrder ==
  /\ IsPrefixOf(obs.invoked, <<1, 2, 3, 4, 5>>)
  /\ ((read.what = "tool" /\ read.returncode = "1") \/ (read.what = "rsf" /\ ~read.ok))
       => (pc = "cleanup" /\ obs.reportedStep = obs.invoked[Len(obs.invoked)])
  /\ obs.reportedStep # 0
       => /\ obs.invoked # <<>>
          /\ obs.invoked[Len(obs.invoked)] = obs.reportedStep
          /\ obs.reportedType = StepType(obs.reportedStep)
          /\ "cia_error" \in obs.log
          /\ pc \in {"cleanup", "build_result", "returned", "crashed"}
          /\ ~cur.success /\ ~cur.skip /\ ~obs.archived
          /\ cur.ret \in {"running", "failed"}
          /\ pc = "returned" => (cur.ret = "failed" /\ "build_failed" \in obs.log)
  /\ (cur.success /\ pc \in {"cleanup", "build_result"})
       => (obs.invoked = <<1, 2, 3, 4, 5>> /\ obs.reportedStep = 0)
  /\ cur.ret = "success" => (obs.invoked = <<1, 2, 3, 4, 5>> /\ obs.reportedStep = 0)

C6_Witness ==
  pc = "returned" /\ obs.reportedStep = 3 /\ obs.invoked = <<1, 2, 3>> /\ cur.ret = "failed"

RtpWarnings == {"rtp_needed", "rtp_fallback", "no_rtp_for_game"}

\* C7: with FullPackageFlag = 1 the fallback is not run, no opt-out,
\* fallback or skip warning is emitted and the game is not skipped, whatever
\* the catalog holds, the id asked for and the --no-rtp flag; the id asked
\* for is left as it is.
C7_SelfContainedNotNeeded ==
  (read.what = "rtp" /\ read.flag = "1")
    => /\ ~read.fallbackRan
       /\ obs.log \cap RtpWarnings = {}
       /\ ~cur.skip
       /\ pc # "build_result"
       /\ cur.wanted_rtp = read.requested
       /\ ~rtp_dirs.none => pc = "crc"

C7_Witness ==
  /\ read.what = "rtp" /\ read.flag = "1" /\ pc = "crc"
  /\ ~no_rtp /\ ~HasRtp(rtp_dirs, read.requested)
  /\ rtp_dirs.keys # {}

\* The preference order of the two families.
PrefA == <<"2000-en-don-miguel", "2000-en-official">>
PrefB == <<"2003-en-rpg-advocate", "2003-en-maker-universe", "2003-en-official">>

\* The family of an id by its prefix, else by the executable.
FamilyOf(requested, exeIsFile, size) ==
  IF StartsWith(IdText(requested), Prefix2000en) THEN PrefA
  ELSE IF StartsWith(IdText(requested), Prefix2003en) THEN PrefB
  ELSE IF exeIsFile /\ size <= 800000 THEN PrefA ELSE PrefB

Available(pref) == {i \in 1..Len(pref) : pref[i] \in rtp_dirs.keys}

\* The resolution fell through to the fallback: the id asked for is not in
\* the catalog, the game is not self-contained, --no-rtp was not passed.
FallbackCase ==
  /\ read.what = "rtp" /\ ~rtp_dirs.none
  /\ read.flag # "1" /\ ~no_rtp
  /\ read.requested \notin rtp_dirs.keys

\* C8: in the fallback case the package chosen is the first of the family's
\* preference order that the catalog holds, with a warning; with none of the
\* family in the catalog the game is skipped.
C8_FallbackPreference ==
  FallbackCase =>
    LET pref == FamilyOf(read.requested, read.exeIsFile, read.exeSize)
    IN  IF Available(pref) = {}
        THEN cur.skip /\ pc = "build_result" /\ cur.wanted_rtp = read.requested
        ELSE /\ \E i \in Available(pref) :
                  /\ cur.wanted_rtp = pref[i]
                  /\ \A j \in Available(pref) : i <= j
             /\ "rtp_fallback" \in obs.log
             /\ ~cur.skip /\ pc = "crc"

C8_Witness ==
  /\ FallbackCase
  /\ read.requested = "2003-en-rpg-advocate"
  /\ rtp_dirs.keys = {"2003-en-maker-universe", "2003-en-official"}
  /\ cur.wanted_rtp = "2003-en-maker-universe"
  /\ "rtp_fallback" \in obs.log

\* C9: in the fallback case with no package of the family in the catalog
\* the game is skipped: nothing is fingerprinted, staged, invoked or
\* archived, the result is a skip and not a failure, is reported as skipped
\* only, adds nothing to the count, and the batch goes on.
C9_SkipState ==
  /\ (FallbackCase
        /\ Available(FamilyOf(read.requested, read.exeIsFile, read.exeSize)) = {})
       => (cur.skip /\ pc = "build_result")
  /\ cur.skip
       => /\ ~cur.success
          /\ ~obs.crcDone /\ ~obs.staged /\ obs.invoked = <<>> /\ ~obs.archived
          /\ OwnFiles = {}
          /\ "no_rtp_for_game" \in obs.log /\ "build_failed" \notin obs.log
          /\ pc \in {"build_result", "returned"}
          /\ cur.ret = (IF pc = "returned" THEN "skip" ELSE "running")

C9_SkipStep ==
  (pc = "returned" /\ cur.ret = "skip")
    => IF root_is_game THEN pc' = "exit1"
       ELSE count' = count /\ pc' = "loop" /\ summary' = summary

C9_SkipIsNotABuild == []C9_SkipState /\ [][C9_SkipStep]_vars

C9_Witness ==
  ~root_is_game /\ pc = "returned" /\ cur.ret = "skip" /\ read = NoRead

\* C10: default-asset detection fails the build exactly when the metadata
\* file has the default fingerprint, and then before anything is staged,
\* invoked or archived; default audio, banner or icon alone never fail it.
C10_DefaultInfoFails ==
  /\ (read.what = "crc" /\ ~read.raised)
       => IF "info" \in read.default_items
          THEN /\ pc = "build_result" /\ ~cur.success /\ ~cur.skip
               /\ ~obs.staged /\ obs.invoked = <<>> /\ ~obs.archived
               /\ OwnFiles = {}
          ELSE pc = "stage" /\ cur.success
  /\ (obs.crcDone /\ ~obs.staged /\ pc \in {"build_result", "returned"})
       => /\ ~cur.success /\ ~cur.skip
          /\ obs.invoked = <<>> /\ ~obs.archived /\ OwnFiles = {}
          /\ pc = "returned" => cur.ret = "failed"

C10_Witness ==
  /\ read.what = "crc" /\ ~read.raised
  /\ read.default_items = {"audio", "banner", "icon"}
  /\ pc = "stage"

C10_WitnessFailed ==
  obs.crcDone /\ ~obs.staged /\ pc = "returned" /\ cur.ret = "failed"

\* The identifier is exactly six hexadecimal digits.
SixHexDigits(text) == Len(text) = 6 /\ \A i \in 1..Len(text) : text[i] \in HexDigits

IdDiagnostics == {"invalid ID (must be hexadecimal)", "invalid ID length (must be 6 characters)"}

\* gameinfo.cfg was read and has the section and both required keys.
InfoRead ==
  read.what = "gameinfo" /\ read.hasSection /\ read.id # None /\ read.title # None

\* C11: a metadata file whose identifier is not exactly six hexadecimal
\* digits is rejected with an id-related diagnostic and the game is not
\* built; a wrong length and a non-hexadecimal character are both reported.
C11_IdIsSixHexDigits ==
  (InfoRead /\ ~SixHexDigits(CiaIdText(read.id)))
    => /\ pc = "returned" /\ cur.ret = "None"
       /\ "no_info" \in obs.log
       /\ read.diag \cap IdDiagnostics # {}
       /\ (/\ Len(CiaIdText(read.id)) # 6
           /\ \E i \in 1..Len(CiaIdText(read.id)) : CiaIdText(read.id)[i] \notin HexDigits)
            => IdDiagnostics \subseteq read.diag

\* No candidate has been looked at and nothing has been reported.
NothingTouched ==
  /\ idx = 0 /\ finished = 0 /\ count = 0 /\ summary = <<>>
  /\ cur = InitCur /\ obs = InitObs
  /\ \A e \in scratch : e.owner = 0

C12_FatalState ==
  /\ (read.what = "spec" /\ ~read.isfile) => (pc = "exit1" /\ NothingTouched)
  /\ (/\ read.what = "tools"
      /\ ~(read.has_bannertool /\ read.has_3dstool /\ read.has_makerom))
       => (pc = "exit1" /\ NothingTouched)
  /\ (read.what = "elf" /\ ~read.isfile) => (pc = "exit1" /\ NothingTouched)
  /\ pc \in {"check_rtp", "check_rsf_template", "check_prerequisites",
             "check_easyrpg_elf", "clean_start"} => NothingTouched

C12_ExitIsFinal == pc = "exit1" => pc' = "exit1"

\* C12: when the spec template, one of bannertool, 3dstool and makerom, or
\* the ELF file is missing, the process exits with status 1 there and then:
\* no candidate is looked at, staged or built, and no summary is printed.
C12_ConfigErrorsFatal == []C12_FatalState /\ [][C12_ExitIsFinal]_vars

C12_Witness ==
  /\ read.what = "tools" /\ read.has_bannertool /\ read.has_3dstool /\ ~read.has_makerom
  /\ pc = "exit1"

\* C13: an error while the scratch directory is cleaned up at the end of a
\* build attempt does not leave the per-game build: the attempt returns the
\* result it had, and the batch goes on.
C13_CleanupFailureTolerated ==
  (read.what = "cleanup" /\ read.raises)
    => /\ pc = "build_result"
       /\ cur.success = (obs.invoked = <<1, 2, 3, 4, 5>> /\ obs.archived)

\* gameinfo.cfg was read and lacks the section, the id key or the title key.
InfoIncomplete ==
  read.what = "gameinfo" /\ (~read.hasSection \/ read.id = None \/ read.title = None)

\* C14: check_3ds_info does not raise: a metadata file without the section,
\* the id key or the title key gives a failure with a diagnostic, as every
\* other invalid file does, and the diagnostic lists every invalid field.
C14_InfoNeverRaises ==
  /\ InfoIncomplete => (pc = "returned" /\ cur.ret = "None" /\ "no_info" \in obs.log)
  /\ (InfoRead /\ read.title = "" /\ ~ParsesAsHex(CiaIdText(read.id))
        /\ Len(CiaIdText(read.id)) # 6)
       => ({"invalid title"} \cup IdDiagnostics) \subseteq read.diag

\* C15: a build failed because the metadata file is the default one has a
\* diagnostic that names default assets, also when the metadata file is the
\* only asset that matches a default.
C15_DefaultInfoNamed ==
  (pc = "returned" /\ obs.crcDone /\ ~obs.staged /\ cur.ret = "failed")
    => "default_assets" \in obs.log

Members(pref) == {pref[i] : i \in 1..Len(pref)}

HasFamilyPrefix(requested) ==
  \/ StartsWith(IdText(requested), Prefix2000en)
  \/ StartsWith(IdText(requested), Prefix2003en)

\* The package used, or the skip, is that of the family pref.
ResolvedWithin(pref) ==
  IF cur.skip THEN Members(pref) \cap rtp_dirs.keys = {}
  ELSE cur.wanted_rtp \in Members(pref) \cap rtp_dirs.keys

\* C16: in the fallback case an id with the prefix 2000-en resolves within
\* family A and one with the prefix 2003-en within family B, without the
\* executable being looked at; any other id resolves within family A iff
\* RPG_RT.exe is a file of at most 800,000 bytes, else within family B.
C16_FamilyChoice ==
  FallbackCase =>
    /\ read.exeAsked = ~HasFamilyPrefix(read.requested)
    /\ StartsWith(IdText(read.requested), Prefix2000en) => ResolvedWithin(PrefA)
    /\ StartsWith(IdText(read.requested), Prefix2003en) => ResolvedWithin(PrefB)
    /\ ~HasFamilyPrefix(read.requested)
         => IF read.exeIsFile /\ read.exeSize <= 800000
            THEN ResolvedWithin(PrefA) ELSE ResolvedWithin(PrefB)

C16_Witness ==
  /\ FallbackCase /\ read.requested = "" /\ read.exeIsFile /\ read.exeSize = 800000
  /\ rtp_dirs.keys = {"2000-en-official", "2003-en-official"}
  /\ cur.wanted_rtp = "2000-en-official"

C16_WitnessAbove ==
  /\ FallbackCase /\ read.requested = "custom-rtp"
  /\ read.exeIsFile /\ read.exeSize = 800001
  /\ rtp_dirs.keys = {"2000-en-official", "2003-en-official"}
  /\ cur.wanted_rtp = "2003-en-official"

\* C17: the catalog check_rtp builds holds known package identifiers only,
\* so no other directory is used as a package, and no build changes it.
C17_CatalogIsKnownIds ==
  /\ rtp_dirs.keys \subseteq RTP_VERSIONS
  /\ pc # "check_rtp" => rtp_dirs = check_rtp(rtp_root.isdir, rtp_root.listing)

\* C18: when the game is self-contained or --no-rtp was passed, staging
\* copies no file of a runtime package: the staged tree holds the game's
\* files only.
C18_NotNeededCopiesNoRtp ==
  (read.what = "copy" /\ (read.full_package_flag \/ no_rtp))
    => \A e \in OwnFiles : e.file # "rtp"

\* C19: with the catalog root missing, check_rtp only warns and every valid
\* game is built without a package (self-contained, or --no-rtp) or skipped;
\* no attempt raises because the catalog is missing.
C19_MissingCatalogIsEmpty ==
  /\ (pc = "check_rsf_template" /\ ~rtp_root.isdir) => rtp_dirs.keys = {}
  /\ (read.what = "rtp" /\ ~rtp_root.isdir)
       => IF read.flag = "1" \/ no_rtp
          THEN pc = "crc" /\ ~cur.skip
          ELSE pc = "build_result" /\ cur.skip

\* C20: the staging tree is a directory below the scratch directory, not the
\* scratch directory itself, so the tree 3dstool is given holds files of
\* this game and its package only: no banner.bin or icon.bin, and no file
\* of another game.
C20_StagingTreeIsOwn ==
  /\ pc \in {"makebanner", "makesmdh", "3dstool", "rsf", "makerom"}
       => make_game_tmp(slugify(NameText(cur.item))) # <<>>
  /\ \A f \in obs.romfsTree :
       f.owner = idx /\ f.file \notin ToolFiles

====
